---- MODULE Spec2Model ----
(***************************************************************************)
(* Model of vm/src/codecs.rs: the codec registry (search_path,             *)
(* search_cache, errors behind one PyRwLock), its lookup / register /      *)
(* forget / encode_text / decode_text / register_error / lookup_error      *)
(* operations run by concurrent threads, and normalize_encoding_name.      *)
(* Strings are sequences of byte values.                                   *)
(***************************************************************************)
EXTENDS Integers, Sequences, FiniteSets, TLC

\* ---------------------------------------------------------------- bounds
\* Number of top-level registry calls the threads make in one run.
MaxOps == 3
\* Longest search_path a top-level register call still appends to.
MaxPath == 2

Threads == {1, 2}

\* ------------------------------------------------- normalize_encoding_name
IsSpace(c) == c = 32
is_ascii_uppercase(c) == c >= 65 /\ c <= 90
make_ascii_lowercase(c) == IF is_ascii_uppercase(c) THEN c + 32 ELSE c

\* (variant: the search looks for an upper-case letter only)
FindUppercase(encoding) ==
    LET hits == {i \in 1..Len(encoding) : is_ascii_uppercase(encoding[i])}
    IN  IF hits = {} THEN 0
        ELSE CHOOSE i \in hits : \A j \in hits : i <= j

\* encoding.find(|c| c == ' ' || c.is_ascii_uppercase()): 0 when there is none
FindTrigger(encoding) ==
    LET hits == {i \in 1..Len(encoding) :
                    IsSpace(encoding[i]) \/ is_ascii_uppercase(encoding[i])}
    IN  IF hits = {} THEN 0
        ELSE CHOOSE i \in hits : \A j \in hits : i <= j

\* (variant: only the byte the search found is folded)
normalize_first_byte(encoding) ==
    LET i == FindTrigger(encoding)
    IN  IF i = 0 THEN encoding
        ELSE [j \in 1..Len(encoding) |->
                IF j # i THEN encoding[j]
                ELSE IF encoding[j] = 32 THEN 45
                ELSE make_ascii_lowercase(encoding[j])]

\* The bytes before the first space or upper-case letter are kept, the bytes
\* from it on are folded one by one.
normalize_encoding_name(encoding) ==
    LET i == FindTrigger(encoding)
    IN  IF i = 0 THEN encoding
        ELSE [j \in 1..Len(encoding) |->
                IF j < i THEN encoding[j]
                ELSE IF encoding[j] = 32 THEN 45
                ELSE make_ascii_lowercase(encoding[j])]

\* ------------------------------------------------------------ the inputs
\* "U8", "u8", "L 1"
RawNames == { <<85, 56>>, <<117, 56>>, <<76, 32, 49>> }
Keys == { normalize_encoding_name(n) : n \in RawNames }
KeyU8 == <<117, 56>>
KeyL1 == <<108, 45, 49>>

\* Search functions a caller may register, and a value that is not callable.
Providers == {"P1", "P2", "P3"}
NotCallable == "obj"
is_callable(f) == f \in Providers

\* Error handler names used by the callers: a built-in one and a new one.
BuiltinErrors == {"strict", "ignore", "replace", "xmlcharrefreplace",
                  "backslashreplace"}
ErrorNames == {"strict", "mine"}

\* The encoding the callers of encode_text / decode_text ask for: "U8"
TextNames == { <<85, 56>> }

\* ------------------------------------------------------------- the values
\* A Python object, as far as the registry looks at it: its type, its
\* length when it is a tuple, its _is_text_encoding attribute, its identity
\* (id), and for a search function's result who made it for which argument.
Obj(type, len, marker, id, prov, arg) ==
    [type |-> type, len |-> len, marker |-> marker, id |-> id,
     prov |-> prov, arg |-> arg]
PyNone == Obj("NoneType", 0, "absent", 0, "", <<>>)
Fn(name) == Obj("function", 0, "absent", 0, name, <<>>)

\* What the search function p returns when called with argument arg; id is
\* the identity of the object this call creates. P1 knows both encodings,
\* P2 knows "u8" as a non-text codec and answers "l-1" with a 3-tuple, P3
\* knows none.
ProviderValue(p, arg, id) ==
    CASE p = "P1" /\ arg = KeyU8 -> Obj("tuple", 4, "absent", id, p, arg)
      [] p = "P1" /\ arg = KeyL1 -> Obj("tuple", 4, "true", id, p, arg)
      [] p = "P2" /\ arg = KeyU8 -> Obj("tuple", 4, "false", id, p, arg)
      [] p = "P2" /\ arg = KeyL1 -> Obj("tuple", 3, "absent", id, p, arg)
      [] OTHER -> PyNone

\* The search function raises instead of returning.
ProviderRaises(p, arg) == p = "P3" /\ arg = KeyL1

\* The registry call the search function makes while it runs, if any:
\* P3 looks "U8" up when asked for "l-1", and registers P1 when asked for
\* "u8".
ProviderCalls(p, arg) ==
    IF p = "P3" /\ arg = KeyL1
    THEN << [op |-> "lookup", arg |-> <<85, 56>>, func |-> ""] >>
    ELSE IF p = "P3" /\ arg = KeyU8
    THEN << [op |-> "register", arg |-> <<>>, func |-> "P1"] >>
    ELSE << >>

\* A PyResult: Ok(val) or Err of an exception kind with its message
\* (the format string and the name put into it).
Ok(v) == [kind |-> "Ok", val |-> v, fmt |-> "", name |-> <<>>]
Err(kind, fmt, name) == [kind |-> kind, val |-> PyNone, fmt |-> fmt, name |-> name]
NoResult == [kind |-> "", val |-> PyNone, fmt |-> "", name |-> <<>>]

\* PyCodec::from_tuple
\* (variant: the length of the tuple is not looked at)
from_tuple_any(tuple) == TRUE

from_tuple(tuple) == tuple.len = 4

\* (variant: a result that is no 4-tuple counts as no match)
try_from_object_lenient(obj) ==
    IF obj.type = "tuple" /\ from_tuple(obj) THEN Ok(obj) ELSE Ok(PyNone)

\* impl TryFromObject for PyCodec, under Option<PyCodec>: None is Ok(None),
\* anything else must be a tuple of 4 elements.
try_from_object(obj) ==
    IF obj.type = "NoneType" THEN Ok(PyNone)
    ELSE IF obj.type = "tuple" /\ from_tuple(obj) THEN Ok(obj)
    ELSE Err("TypeError", "codec search functions must return 4-tuples", <<>>)

\* (variant: a missing _is_text_encoding attribute is false)
is_text_codec_strict(codec) == codec.marker = "true"

\* PyCodec::is_text_codec: a missing _is_text_encoding attribute is true
is_text_codec(codec) ==
    IF codec.marker = "absent" THEN TRUE ELSE codec.marker = "true"

\* -------------------------------------------------------------- the state
VARIABLES
    search_path,    \* RegistryInner.search_path: Vec of search functions
    search_cache,   \* RegistryInner.search_cache: HashMap name -> PyCodec
    errors,         \* RegistryInner.errors: HashMap name -> handler
    writer,         \* the threads holding inner.write() (at most one)
    readers,        \* per thread, the inner.read() guards it holds
    stack,          \* per thread, its call frames, innermost last
    last,           \* per thread, the frame of the call that returned last
    nops,           \* top-level calls started so far
    nextId,         \* identity of the next object a search function creates
    forgets,        \* per key, the forget calls executed so far
    gen,            \* per key, the entries inserted into search_cache so far
    resolved,       \* per key, the codec the last successful lookup returned
                    \* since the last forget of the key (PyNone: none)
    pure            \* the last call of a free function of the module, with
                    \* its argument and its result

vars == << search_path, search_cache, errors, writer, readers, stack, last,
           nops, nextId, forgets, gen, resolved, pure >>

\* A provider of search_path[1..n] returns a codec for key.
Recognised(path, key) ==
    \E i \in 1..Len(path) :
        /\ ~ProviderRaises(path[i], key)
        /\ try_from_object(ProviderValue(path[i], key, 0)).kind = "Ok"
        /\ ProviderValue(path[i], key, 0).type = "tuple"

\* The frame of a call of op by thread t, at its entry; its argument is an
\* encoding name (arg), a search function or handler (func), an error
\* handler name (ename). key is the normalized name for the operations that take an encoding;
\* known, prior, epoch, gen0 record the state the call started in; failed is
\* how the thread's call before this one ended when that was a failed lookup
\* of the same name, started while no registered provider recognised it.
\* cepoch is the number of forget calls of the key made when the provider
\* returned the codec of the frame.
NewFrame(t, op, arg, func, ename) ==
    LET named == op \in {"lookup", "forget", "encode_text", "decode_text"}
        key == IF named THEN normalize_encoding_name(arg) ELSE <<>>
    IN  [op |-> op, pc |-> "start", arg |-> arg, func |-> func,
         ename |-> ename, key |-> key,
         snap |-> <<>>, idx |-> 1, invoked |-> <<>>, rets |-> <<>>,
         ncall |-> 0,
         codec |-> PyNone, hit |-> FALSE, looked |-> NoResult, cap |-> FALSE,
         res |-> NoResult,
         known |-> named /\ Recognised(search_path, key),
         prior |-> IF named THEN resolved[key] ELSE PyNone,
         epoch |-> IF named THEN forgets[key] ELSE 0,
         epoch1 |-> 0,
         gen0 |-> IF op = "lookup" /\ stack[t] = <<>> /\ last[t].op = "forget"
                     /\ last[t].key = key
                  THEN last[t].genc ELSE -1,
         failed |-> IF op = "lookup" /\ stack[t] = <<>> /\ last[t].op = "lookup"
                       /\ last[t].key = key /\ last[t].res.kind # "Ok"
                       /\ ~last[t].known
                    THEN last[t].res.kind ELSE "",
         cepoch |-> 0,
         genc |-> -1]

Idle == [op |-> "none", pc |-> "done", arg |-> <<>>, func |-> "",
         ename |-> "", key |-> <<>>,
         snap |-> <<>>, idx |-> 1, invoked |-> <<>>, rets |-> <<>>,
         ncall |-> 0,
         codec |-> PyNone, hit |-> FALSE, looked |-> NoResult, cap |-> FALSE,
         res |-> NoResult, known |-> FALSE, prior |-> PyNone, epoch |-> 0,
         epoch1 |-> 0, gen0 |-> -1, failed |-> "", cepoch |-> 0,
         genc |-> -1]

Top(t) == stack[t][Len(stack[t])]
Running(t, op, pc) ==
    /\ stack[t] # <<>>
    /\ Top(t).op = op
    /\ Top(t).pc = pc

\* ------------------------------------------------- the free functions
\* Longest encoding name given to normalize_encoding_name.
MaxLen == 3
\* Longest text an error description carries as its object.
MaxText == 2
\* Largest start / end attribute of an error description.
MaxPos == 3

\* The bytes of the names: ' ', '-', 'A', 'Z', 'a', and a byte of a
\* non-ASCII character.
NameBytes == {32, 45, 65, 90, 97, 195}
\* The characters of the texts, as code points: 'a', U+00E9, U+20AC.
TextChars == {97, 233, 8364}

SeqsUpTo(S, n) == UNION { [1..k -> S] : k \in 0..n }

\* An error description: the kind of exception it is, its start and end
\* attributes (-1: a value usize::try_from_object rejects) and its object.
ErrKinds == {"UnicodeEncodeError", "UnicodeDecodeError",
             "UnicodeTranslateError", "ValueError"}
Positions == -1..MaxPos
NoErr == [kind |-> "", start |-> 0, end |-> 0, object |-> <<>>]

\* PyResult<(String, usize)>
HOk(out, resume) == [kind |-> "Ok", out |-> out, resume |-> resume]
HErr(kind) == [kind |-> kind, out |-> <<>>, resume |-> 0]
NoHandled == HErr("")

\* The outcome of `?` on PyResult<Range<usize>>
extract_unicode_error_range(err) ==
    IF err.start < 0 \/ err.end < 0
    THEN [kind |-> "OverflowError", start |-> 0, end |-> 0]
    ELSE [kind |-> "Ok", start |-> err.start, end |-> err.end]

is_decode_err(err) == err.kind = "UnicodeDecodeError"
is_encode_ish_err(err) ==
    err.kind \in {"UnicodeEncodeError", "UnicodeTranslateError"}
bad_err_type(err) == HErr("TypeError")

\* str::repeat
repeat(c, n) == [i \in 1..n |-> c]

\* (variant: the decode branch repeats like the other two)
replace_count_all_alike(err, range) == range.end - range.start

\* How many replacement characters replace_errors returns: the decode branch
\* returns one, the others range.end - range.start.
replace_count(err, range) ==
    IF is_decode_err(err) THEN 1 ELSE range.end - range.start

\* '?' is 63, char::REPLACEMENT_CHARACTER is 65533. range.end - range.start
\* on usize overflows when end < start: the debug build panics on the
\* subtraction, the release build wraps and repeat panics on the capacity.
replace_errors(err) ==
    LET range == extract_unicode_error_range(err)
        replace == IF err.kind = "UnicodeEncodeError" THEN 63 ELSE 65533
    IN  IF err.kind = "ValueError" THEN bad_err_type(err)
        ELSE IF range.kind # "Ok" THEN HErr(range.kind)
        ELSE IF replace_count(err, range) < 0 THEN HErr("panic")
        ELSE HOk(repeat(replace, replace_count(err, range)), range.end)

\* crate::common::str::try_get_chars(s, start..).unwrap_or(""): the
\* characters of s from index start on, none when s is shorter.
try_get_chars(s, start) ==
    IF start > Len(s) THEN <<>> ELSE SubSeq(s, start + 1, Len(s))

\* Range<usize>::len
range_len(range) ==
    IF range.end > range.start THEN range.end - range.start ELSE 0

\* (variant: the iterator is not cut at n)
take_rest(s, n) == s

\* Iterator::take
take(s, n) == SubSeq(s, 1, IF n < Len(s) THEN n ELSE Len(s))

\* The decimal digits of n, as characters ('0' is 48).
RECURSIVE Decimal(_)
Decimal(n) ==
    IF n < 10 THEN << 48 + n >>
    ELSE Append(Decimal(n \div 10), 48 + (n % 10))

\* write!(out, "&#{};", c as u32): '&' is 38, '#' is 35, ';' is 59
char_ref(c) == << 38, 35 >> \o Decimal(c) \o << 59 >>

RECURSIVE write_all(_)
write_all(chars) ==
    IF chars = <<>> THEN <<>>
    ELSE char_ref(Head(chars)) \o write_all(Tail(chars))

xmlcharrefreplace_errors(err) ==
    LET range == extract_unicode_error_range(err)
        s_after_start == try_get_chars(err.object, range.start)
        num_chars == range_len(range)
    IN  IF ~is_encode_ish_err(err) THEN bad_err_type(err)
        ELSE IF range.kind # "Ok" THEN HErr(range.kind)
        ELSE HOk(write_all(take(s_after_start, num_chars)), range.end)

\* No free function has been called yet.
NoCall == [fn |-> "none", encoding |-> <<>>, out |-> <<>>, again |-> <<>>,
           err |-> NoErr, res |-> NoHandled]

\* (variant: the table is built without its last entry)
new_errors_short == [n \in BuiltinErrors \ {"backslashreplace"} |-> Fn(n)]

\* The errors table CodecsRegistry::new collects: the five built-in handlers
new_errors == [n \in BuiltinErrors |-> Fn(n)]

\* RegistryInner as CodecsRegistry::new builds it
Init ==
    /\ search_path = <<>>
    /\ search_cache = [k \in {} |-> PyNone]
    /\ errors = new_errors
    /\ writer = {}
    /\ readers = [t \in Threads |-> 0]
    /\ stack = [t \in Threads |-> <<>>]
    /\ last = [t \in Threads |-> Idle]
    /\ nops = 0
    /\ nextId = 1
    /\ forgets = [k \in Keys |-> 0]
    /\ gen = [k \in Keys |-> 0]
    /\ resolved = [k \in Keys |-> PyNone]
    /\ pure = NoCall

\* ---------------------------------------------------------------- PyRwLock
\* read() is granted while no thread holds the write guard; write() while
\* no thread holds any guard.
CanRead(t) == writer = {}
CanWrite(t) == writer = {} /\ \A u \in Threads : readers[u] = 0

\* ------------------------------------------------------- calls and returns
\* The stack of a thread after its innermost call f has returned res: the
\* caller, if any, goes on (a search function with its own work, the text
\* entry points with the codec looked up).
Returned(stk, res) ==
    LET rest == SubSeq(stk, 1, Len(stk) - 1)
        n == Len(rest)
    IN  IF n = 0 THEN rest
        ELSE IF rest[n].op = "lookup"
             THEN [rest EXCEPT ![n].ncall = @ + 1]
             ELSE [rest EXCEPT ![n].looked = res, ![n].pc = "is_text"]

\* Thread t's innermost call returns res.
Return(t, f, res) ==
    /\ stack' = [stack EXCEPT ![t] = Returned(stack[t], res)]
    /\ last' = [last EXCEPT ![t] =
                  [f EXCEPT !.pc = "done", !.res = res,
                            !.epoch1 = IF f.key \in Keys THEN forgets[f.key] ELSE 0]]

\* Thread t, idle, makes a top-level call. The threads being alike, the
\* first call of a run is thread 1's.
Call(t, frames) ==
    /\ stack[t] = <<>>
    /\ nops < MaxOps
    /\ nops = 0 => t = 1
    /\ nops' = nops + 1
    /\ stack' = [stack EXCEPT ![t] = frames]
    /\ last' = [last EXCEPT ![t] = Idle]
    /\ UNCHANGED << pure, search_path, search_cache, errors, writer, readers,
                    nextId, forgets, gen, resolved >>

CallLookup(t) ==
    \E name \in RawNames : Call(t, << NewFrame(t, "lookup", name, "", "") >>)

CallRegister(t) ==
    \E f \in Providers \cup {NotCallable} :
        /\ Len(search_path) < MaxPath
        /\ Call(t, << NewFrame(t, "register", <<>>, f, "") >>)

CallForget(t) ==
    \E name \in RawNames : Call(t, << NewFrame(t, "forget", name, "", "") >>)

\* encode_text / decode_text start with _lookup_text_encoding, which starts
\* with self.lookup(encoding).
CallText(t) ==
    \E op \in {"encode_text", "decode_text"}, name \in TextNames :
        Call(t, << [NewFrame(t, op, name, "", "") EXCEPT !.pc = "lookup"],
                   NewFrame(t, "lookup", name, "", "") >>)

CallRegisterError(t) ==
    \E name \in ErrorNames :
        Call(t, << NewFrame(t, "register_error", <<>>, "user", name) >>)

CallLookupError(t) ==
    \E name \in ErrorNames : Call(t, << NewFrame(t, "lookup_error", <<>>, "", name) >>)

\* ------------------------------------------------- CodecsRegistry::register
Register(t) ==
    /\ Running(t, "register", "start")
    /\ LET f == Top(t) IN
        \/ /\ ~is_callable(f.func)
           /\ Return(t, f, Err("TypeError", "argument must be callable", <<>>))
           /\ UNCHANGED search_path
        \/ /\ is_callable(f.func)
           /\ CanWrite(t)
           /\ search_path' = Append(search_path, f.func)
           /\ Return(t, f, Ok(PyNone))
    /\ UNCHANGED << pure, search_cache, errors, writer, readers, nops, nextId,
                    forgets, gen, resolved >>

\* --------------------------------------------------- CodecsRegistry::lookup
\* let inner = self.inner.read();
LookupRead(t) ==
    /\ Running(t, "lookup", "start")
    /\ CanRead(t)
    /\ readers' = [readers EXCEPT ![t] = @ + 1]
    /\ stack' = [stack EXCEPT ![t][Len(stack[t])].pc = "check"]
    /\ UNCHANGED << pure, search_path, search_cache, errors, writer, last, nops,
                    nextId, forgets, gen, resolved >>

\* (variant: the read guard is kept while the search functions run)
KeepInner(t) == readers

\* drop(inner): the read guard is given back before any search function runs
DropInner(t) == [readers EXCEPT ![t] = @ - 1]

\* (variant: the search function gets the name as the caller wrote it)
ProviderArgRaw(f) == f.arg

\* The argument a search function is called with: the normalized name.
ProviderArg(f) == f.key

\* (variant: the loop reads the shared list at every iteration)
snapshot_live(f) == search_path

\* The list the for loop of frame f iterates: the clone of search_path it
\* took under the read guard.
snapshot(f) == f.snap

\* The walk over the snapshot with frame f, whose idx is the next search
\* function: call it, or fail when the snapshot is exhausted.
Walk(t, f) ==
    IF f.idx > Len(snapshot(f))
    THEN Return(t, f, Err("LookupError", "unknown encoding: {}", f.key))
    ELSE /\ stack' = [stack EXCEPT ![t][Len(stack[t])] =
                        [f EXCEPT !.pc = "in_provider", !.ncall = 0,
                                  !.invoked = Append(@, [prov |-> snapshot(f)[f.idx],
                                                         arg |-> ProviderArg(f)])]]
         /\ last' = last

\* (variant: the cache is asked for the name as the caller wrote it)
cache_get_raw(cache, f) ==
    IF f.arg \in DOMAIN cache THEN cache[f.arg] ELSE PyNone

\* inner.search_cache.get(encoding.as_ref()) with the normalized name of
\* frame f: the entry, or PyNone for None
cache_get(cache, f) ==
    IF f.key \in DOMAIN cache THEN cache[f.key] ELSE PyNone

\* The cache check under the read guard: a hit returns the cached codec, a
\* miss clones search_path, drops the guard and starts the walk.
LookupCheck(t) ==
    /\ Running(t, "lookup", "check")
    /\ LET f == [Top(t) EXCEPT !.genc = gen[Top(t).key]]
           codec == cache_get(search_cache, f)
       IN
        IF codec # PyNone
        THEN /\ readers' = [readers EXCEPT ![t] = @ - 1]
             /\ Return(t, [f EXCEPT !.hit = TRUE], Ok(codec))
             /\ resolved' = [resolved EXCEPT ![f.key] = codec]
        ELSE /\ readers' = DropInner(t)
             /\ Walk(t, [f EXCEPT !.snap = search_path])
             /\ resolved' = resolved
    /\ UNCHANGED << pure, search_path, search_cache, errors, writer, nops, nextId,
                    forgets, gen >>

\* The search function being run makes its registry call.
ProviderCall(t) ==
    /\ Running(t, "lookup", "in_provider")
    /\ LET f == Top(t)
           calls == ProviderCalls(snapshot(f)[f.idx], f.key)
       IN  /\ f.ncall < Len(calls)
           /\ stack' = [stack EXCEPT ![t] =
                 Append(@, NewFrame(t, calls[f.ncall + 1].op, calls[f.ncall + 1].arg,
                                       calls[f.ncall + 1].func, ""))]
    /\ UNCHANGED << pure, search_path, search_cache, errors, writer, readers, last,
                    nops, nextId, forgets, gen, resolved >>

\* vm.invoke(&func, (encoding,))? returns and its result is converted:
\* an exception and a malformed result end the lookup, None moves on to the
\* next search function, a codec goes to the insert.
ProviderReturn(t) ==
    /\ Running(t, "lookup", "in_provider")
    /\ LET f == Top(t)
           p == snapshot(f)[f.idx]
           v == ProviderValue(p, ProviderArg(f), nextId)
           r == try_from_object(v)
           g == [f EXCEPT !.rets = Append(@, v)]
       IN  /\ f.ncall = Len(ProviderCalls(p, f.key))
           /\ IF ProviderRaises(p, ProviderArg(f))
              THEN /\ Return(t, f, Err("Exception", "", <<>>))
                   /\ nextId' = nextId
              ELSE /\ nextId' = IF v.type = "tuple" THEN nextId + 1 ELSE nextId
                   /\ IF r.kind # "Ok" THEN Return(t, g, r)
                      ELSE IF r.val.type = "NoneType"
                           THEN Walk(t, [g EXCEPT !.idx = @ + 1])
                           ELSE /\ stack' = [stack EXCEPT ![t][Len(stack[t])] =
                                               [g EXCEPT !.codec = r.val, !.pc = "write",
                                                          !.cepoch = forgets[f.key]]]
                                /\ last' = last
    /\ UNCHANGED << pure, search_path, search_cache, errors, writer, readers, nops,
                    forgets, gen, resolved >>

\* let mut inner = self.inner.write();
LookupWrite(t) ==
    /\ Running(t, "lookup", "write")
    /\ CanWrite(t)
    /\ writer' = writer \cup {t}
    /\ stack' = [stack EXCEPT ![t][Len(stack[t])].pc = "insert"]
    /\ UNCHANGED << pure, search_path, search_cache, errors, readers, last, nops,
                    nextId, forgets, gen, resolved >>

\* (variant: the new codec replaces the entry present)
insert_overwrite(cache, key, codec) ==
    [k \in DOMAIN cache \cup {key} |-> IF k = key THEN codec ELSE cache[k]]

\* search_cache.entry(key).or_insert(codec): the map afterwards
or_insert(cache, key, codec) ==
    [k \in DOMAIN cache \cup {key} |->
        IF k \in DOMAIN cache THEN cache[k] ELSE codec]

\* The insert under the write guard; the codec returned is the stored one.
\* (variant: the entry is made under the name as the caller wrote it)
entry_key_raw(f) == f.arg

\* The key of .entry(encoding.as_str().to_owned()): the normalized name
entry_key(f) == f.key

LookupInsert(t) ==
    /\ Running(t, "lookup", "insert")
    /\ LET f == Top(t)
           cache == or_insert(search_cache, entry_key(f), f.codec)
       IN  /\ search_cache' = cache
           /\ gen' = IF f.key \in DOMAIN search_cache THEN gen
                     ELSE [gen EXCEPT ![f.key] = @ + 1]
           /\ resolved' = [resolved EXCEPT ![f.key] = cache[entry_key(f)]]
           /\ Return(t, f, Ok(cache[entry_key(f)]))
    /\ writer' = writer \ {t}
    /\ UNCHANGED << pure, search_path, errors, readers, nops, nextId, forgets >>

\* --------------------------------------------------- CodecsRegistry::forget
\* (variant: the entry is read, not removed)
remove_nothing(cache, key) == cache

\* search_cache.remove(key): the map afterwards
remove(cache, key) == [k \in DOMAIN cache \ {key} |-> cache[k]]

\* (variant: the entry is removed under the name as the caller wrote it)
forget_key_raw(f) == f.arg

\* The key forget removes: the normalized name
forget_key(f) == f.key

Forget(t) ==
    /\ Running(t, "forget", "start")
    /\ CanWrite(t)
    /\ LET f == Top(t)
           removed == IF forget_key(f) \in DOMAIN search_cache
                      THEN search_cache[forget_key(f)] ELSE PyNone
       IN  /\ search_cache' = remove(search_cache, forget_key(f))
           /\ forgets' = [forgets EXCEPT ![f.key] = @ + 1]
           /\ resolved' = [resolved EXCEPT ![f.key] = PyNone]
           /\ Return(t, [f EXCEPT !.genc = gen[f.key]], Ok(removed))
    /\ UNCHANGED << pure, search_path, errors, writer, readers, nops, nextId, gen >>

\* ------------------------- _lookup_text_encoding, encode_text, decode_text
\* let codec = self.lookup(encoding, vm)?; if codec.is_text_codec(vm)? ...
TextCheck(t) ==
    /\ stack[t] # <<>>
    /\ Top(t).op \in {"encode_text", "decode_text"}
    /\ Top(t).pc = "is_text"
    /\ LET f == Top(t) IN
        IF f.looked.kind # "Ok" THEN Return(t, f, f.looked)
        ELSE IF is_text_codec(f.looked.val)
             THEN /\ stack' = [stack EXCEPT ![t][Len(stack[t])].pc = "codec"]
                  /\ last' = last
             ELSE Return(t, f, Err("LookupError",
                     "'{}' is not a text encoding; use {} to handle arbitrary codecs",
                     f.arg))
    /\ UNCHANGED << pure, search_path, search_cache, errors, writer, readers, nops,
                    nextId, forgets, gen, resolved >>

\* What the codec's encode or decode function may do when it is invoked:
\* raise, or return a (bytes, n) pair, a (str, n) pair, a 3-tuple.
Bytes == Obj("bytes", 0, "absent", 0, "", <<>>)
Str == Obj("str", 0, "absent", 0, "", <<>>)
CapOutcomes ==
    { [raises |-> TRUE, type |-> "", len |-> 0, first |-> PyNone],
      [raises |-> FALSE, type |-> "tuple", len |-> 2, first |-> Bytes],
      [raises |-> FALSE, type |-> "tuple", len |-> 2, first |-> Str],
      [raises |-> FALSE, type |-> "tuple", len |-> 3, first |-> Bytes] }

\* PyCodec::encode / PyCodec::decode on the outcome of the invoked function
codec_call(op, out) ==
    IF out.raises THEN Err("Exception", "", <<>>)
    ELSE IF out.type = "tuple" /\ out.len = 2 THEN Ok(out.first)
    ELSE IF op = "encode_text"
    THEN Err("TypeError", "encoder must return a tuple (object, integer)", <<>>)
    ELSE Err("TypeError", "decoder must return a tuple (object,integer)", <<>>)

\* .downcast() of the result to bytes (encode_text) or str (decode_text)
downcast(op, encoding, r) ==
    IF r.kind # "Ok" THEN r
    ELSE IF r.val.type = (IF op = "encode_text" THEN "bytes" ELSE "str") THEN r
    ELSE IF op = "encode_text"
    THEN Err("TypeError", "'{}' encoder returned '{}' instead of 'bytes'", encoding)
    ELSE Err("TypeError", "'{}' decoder returned '{}' instead of 'str'", encoding)

\* codec.encode(obj, errors, vm)?.downcast()
TextInvoke(t) ==
    /\ stack[t] # <<>>
    /\ Top(t).op \in {"encode_text", "decode_text"}
    /\ Top(t).pc = "codec"
    /\ \E out \in CapOutcomes :
        LET f == [Top(t) EXCEPT !.cap = TRUE]
        IN  Return(t, f, downcast(f.op, f.arg, codec_call(f.op, out)))
    /\ UNCHANGED << pure, search_path, search_cache, errors, writer, readers, nops,
                    nextId, forgets, gen, resolved >>

\* --------------------------------------------- register_error, lookup_error
RegisterError(t) ==
    /\ Running(t, "register_error", "start")
    /\ CanWrite(t)
    /\ LET f == Top(t)
           name == f.ename
           previous == IF name \in DOMAIN errors THEN errors[name] ELSE PyNone
       IN  /\ errors' = [n \in DOMAIN errors \cup {name} |->
                            IF n = name THEN Fn(f.func) ELSE errors[n]]
           /\ Return(t, f, Ok(previous))
    /\ UNCHANGED << pure, search_path, search_cache, writer, readers, nops, nextId,
                    forgets, gen, resolved >>

\* lookup_error_opt under the read guard, then ok_or_else
LookupError(t) ==
    /\ Running(t, "lookup_error", "start")
    /\ CanRead(t)
    /\ LET f == Top(t) IN
        IF f.ename \in DOMAIN errors THEN Return(t, f, Ok(errors[f.ename]))
        ELSE Return(t, f, Err("LookupError", "unknown error handler name '{}'", <<>>))
    /\ UNCHANGED << pure, search_path, search_cache, errors, writer, readers, nops,
                    nextId, forgets, gen, resolved >>

\* ------------------------------------------------------ the specification
\* A step of a call thread t has started.
Step(t) ==
    \/ Register(t)
    \/ LookupRead(t)
    \/ LookupCheck(t)
    \/ ProviderCall(t)
    \/ ProviderReturn(t)
    \/ LookupWrite(t)
    \/ LookupInsert(t)
    \/ Forget(t)
    \/ TextCheck(t)
    \/ TextInvoke(t)
    \/ RegisterError(t)
    \/ LookupError(t)

Start(t) ==
    \/ CallLookup(t)
    \/ CallRegister(t)
    \/ CallForget(t)
    \/ CallText(t)
    \/ CallRegisterError(t)
    \/ CallLookupError(t)

Next == \E t \in Threads : Start(t) \/ Step(t)

Spec == Init /\ [][Next]_vars

\* The threads are scheduled fairly and the lock is granted fairly.
FairSpec == Spec /\ \A t \in Threads : SF_vars(Step(t))

\* -------------------------------------------- calls of the free functions
\* A caller normalizes a name, and normalizes the result once more.
CallNormalize ==
    /\ pure = NoCall
    /\ \E encoding \in SeqsUpTo(NameBytes, MaxLen) :
         LET out == normalize_encoding_name(encoding)
         IN  pure' = [NoCall EXCEPT !.fn = "normalize_encoding_name",
                                    !.encoding = encoding,
                                    !.out = out,
                                    !.again = normalize_encoding_name(out)]
    /\ UNCHANGED << search_path, search_cache, errors, writer, readers, stack,
                    last, nops, nextId, forgets, gen, resolved >>

\* The error descriptions a codec hands to a handler.
ErrDescriptions ==
    [kind : ErrKinds, start : Positions, end : Positions,
     object : SeqsUpTo(TextChars, MaxText)]

CallReplaceErrors ==
    /\ pure = NoCall
    /\ \E err \in ErrDescriptions :
         pure' = [NoCall EXCEPT !.fn = "replace_errors", !.err = err,
                                !.res = replace_errors(err)]
    /\ UNCHANGED << search_path, search_cache, errors, writer, readers, stack,
                    last, nops, nextId, forgets, gen, resolved >>

CallXmlcharrefreplaceErrors ==
    /\ pure = NoCall
    /\ \E err \in ErrDescriptions :
         pure' = [NoCall EXCEPT !.fn = "xmlcharrefreplace_errors",
                                !.err = err,
                                !.res = xmlcharrefreplace_errors(err)]
    /\ UNCHANGED << search_path, search_cache, errors, writer, readers, stack,
                    last, nops, nextId, forgets, gen, resolved >>

FnNext ==
    \/ CallNormalize
    \/ CallReplaceErrors
    \/ CallXmlcharrefreplaceErrors

\* The free functions alone: one call, with any argument of the bounded sets.
FnSpec == Init /\ [][FnNext]_vars

\* =================================================================== claims
InProvider(f) == f.op = "lookup" /\ f.pc = "in_provider"
IsCodec(v) == v.type = "tuple" /\ v.len = 4

\* C1: lookup holds none of its guards across a provider invocation. A
\* thread holds a read guard only in the cache check of its innermost call,
\* a lookup, and the write guard only in the insert of its innermost call, a
\* lookup to which a provider has returned a codec; so a lookup that is
\* inside a provider invocation holds neither guard (a guard taken by a
\* registry call the provider makes itself is that call's, given back before
\* it returns to the provider).
C1_LookupHoldsNoGuardAcrossProvider ==
    \A t \in Threads :
        /\ readers[t] <= 1
        /\ readers[t] > 0 => Running(t, "lookup", "check")
        /\ t \in writer =>
              /\ Running(t, "lookup", "insert")
              /\ IsCodec(Top(t).codec)
              /\ Top(t).rets # <<>>
              /\ Top(t).rets[Len(Top(t).rets)] = Top(t).codec
        /\ (stack[t] # <<>> /\ InProvider(Top(t))) =>
              readers[t] = 0 /\ t \notin writer

\* C1 witness: a provider runs in one thread while another thread holds the
\* write guard.
C1_Witness ==
    \E t \in Threads, u \in Threads :
        /\ t # u
        /\ stack[t] # <<>> /\ InProvider(Top(t))
        /\ u \in writer

\* C2: no reachable state is a deadlock (while a call is pending, some
\* thread can take a step of a call), and under fair scheduling every call
\* a thread has started, with the calls its providers make re-entrantly,
\* eventually returns.
C2_NoDeadlockAndCompletion ==
    /\ []((\E t \in Threads : stack[t] # <<>>) => ENABLED (\E t \in Threads : Step(t)))
    /\ \A t \in Threads : (stack[t] # <<>>) ~> (stack[t] = <<>>)

\* C2 witness: a provider invoked by lookup has re-entered the registry with
\* register, which waits for a guard another thread holds.
C2_Witness ==
    \E t \in Threads, u \in Threads :
        /\ t # u
        /\ Len(stack[t]) >= 2
        /\ InProvider(stack[t][Len(stack[t]) - 1])
        /\ Running(t, "register", "start")
        /\ ~CanWrite(t)
        /\ (u \in writer \/ readers[u] > 0)

\* No provider raises or returns a malformed value for this name.
WellBehaved(key) ==
    \A p \in Providers :
        /\ ~ProviderRaises(p, key)
        /\ try_from_object(ProviderValue(p, key, 0)).kind = "Ok"

\* The lookups of the same key by t and u that returned last, with no
\* forget of the key since either started.
SameEpochLookups(t, u) ==
    /\ last[t].op = "lookup" /\ last[u].op = "lookup"
    /\ last[t].key = last[u].key
    /\ last[t].epoch = forgets[last[t].key]
    /\ last[u].epoch = forgets[last[u].key]

Returns(t, op, pc) ==
    /\ Running(t, op, pc)
    /\ Len(stack'[t]) < Len(stack[t])

\* C4: the insert of lookup never overwrites (when the key is cached the
\* entry stays and is what the lookup returns, not the codec it computed),
\* and the codec stored under a key changes only by a forget of that key.
C4_FirstWriterWins ==
    [][ /\ \A t \in Threads :
              (Returns(t, "lookup", "insert") /\ Top(t).key \in DOMAIN search_cache)
                  => /\ search_cache' = search_cache
                     /\ last'[t].res = Ok(search_cache[Top(t).key])
        /\ \A k \in DOMAIN search_cache :
              \/ k \in DOMAIN search_cache' /\ search_cache'[k] = search_cache[k]
              \/ \E t \in Threads : Returns(t, "forget", "start") /\ Top(t).key = k
      ]_vars

\* C4 witness: a lookup is at its insert with a fresh codec while the cache
\* already holds another instance for the key.
C4_Witness ==
    \E t \in Threads :
        /\ Running(t, "lookup", "insert")
        /\ Top(t).key \in DOMAIN search_cache
        /\ search_cache[Top(t).key].id # Top(t).codec.id

\* C5: a lookup that starts after a lookup of the same name has succeeded
\* (and with no forget of the name since) returns the very codec the first
\* returned, from the cache, without invoking any provider.
C5_SecondLookupFromCache ==
    \A t \in Threads :
        (/\ last[t].op = "lookup"
         /\ IsCodec(last[t].prior)
         /\ last[t].epoch = last[t].epoch1)
            => /\ last[t].res = Ok(last[t].prior)
               /\ last[t].hit
               /\ last[t].invoked = <<>>

\* C5 witness: such a second lookup has returned, asked under another
\* spelling of the name than a provider was called with.
C5_Witness ==
    \E t \in Threads :
        /\ last[t].op = "lookup"
        /\ IsCodec(last[t].prior)
        /\ last[t].epoch = last[t].epoch1
        /\ last[t].arg # last[t].prior.arg
        /\ last[t].res.kind = "Ok"

\* The lookup frames of thread t: those on its stack and the one that
\* returned last.
LookupFrame(t, i) ==
    IF i = 0 THEN last[t] ELSE stack[t][i]

WalkInOrder(f) ==
    LET n == Len(f.invoked) IN
    /\ f.key = normalize_encoding_name(f.arg)
    /\ n <= Len(f.snap)
    /\ \A i \in 1..n : f.invoked[i].prov = f.snap[i] /\ f.invoked[i].arg = f.key
    /\ Len(f.rets) \in {n, n - 1}
    /\ \A i \in 1..Len(f.rets) : i < Len(f.rets) => f.rets[i] = PyNone
    /\ IsCodec(f.codec) =>
          /\ Len(f.rets) = n
          /\ f.rets[n] = f.codec
          /\ f.codec.prov = f.snap[n]
    /\ (f.pc = "done" /\ ~f.hit /\ f.res.kind = "Ok") => IsCodec(f.codec)

\* C7: register appends at the end of search_path; on a miss lookup calls
\* the providers of its snapshot in that order, each with the normalized
\* name, every one before the last called having returned None, and calls
\* none after the one that returned a codec, which is the codec it computed.
C7_ProvidersInOrder ==
    [][ /\ \/ search_path' = search_path
           \/ \E p \in Providers : search_path' = Append(search_path, p)
        /\ \A t \in Threads :
              /\ \A i \in 0..Len(stack'[t]) :
                    (LookupFrame(t, i).op = "lookup")' =>
                        /\ WalkInOrder(LookupFrame(t, i))'
                        /\ LookupFrame(t, i)'.snap =
                              SubSeq(search_path', 1, Len(LookupFrame(t, i)'.snap))
              /\ \A i \in 1..Len(stack[t]) :
                    (/\ i <= Len(stack'[t])
                     /\ stack[t][i].op = "lookup"
                     /\ stack[t][i].snap # <<>>) =>
                        stack'[t][i].snap = stack[t][i].snap
              /\ Returns(t, "register", "start") =>
                    \/ search_path' = Append(search_path, Top(t).func)
                    \/ last'[t].res.kind = "TypeError" /\ search_path' = search_path
      ]_vars

\* C7 witness: a lookup returned the codec of the first provider of its
\* snapshot and did not call the second, another provider.
C7_Witness ==
    \E t \in Threads :
        /\ last[t].op = "lookup"
        /\ ~last[t].hit
        /\ last[t].res.kind = "Ok"
        /\ Len(last[t].invoked) = 1
        /\ Len(last[t].snap) = 2
        /\ last[t].snap[1] # last[t].snap[2]

Malformed(v) == v # PyNone /\ ~IsCodec(v)

\* C8: when a provider returns a value that is neither None nor a 4-tuple
\* the lookup fails at once with a type error, calling no further provider
\* and leaving search_cache as it is; no lookup goes on after such a value.
C8_MalformedIsFatal ==
    [][ \A t \in Threads :
          /\ (/\ Running(t, "lookup", "in_provider")
              /\ stack'[t] # stack[t]
              /\ LookupFrame(t, 0)'.op = "lookup"
              /\ LookupFrame(t, 0)'.rets # <<>>
              /\ Malformed(LookupFrame(t, 0)'.rets[Len(LookupFrame(t, 0)'.rets)])
              /\ Len(stack'[t]) < Len(stack[t])) =>
                /\ last'[t].res.kind = "TypeError"
                /\ last'[t].invoked = Top(t).invoked
                /\ search_cache' = search_cache
          /\ \A i \in 1..Len(stack'[t]) :
                stack'[t][i].op = "lookup" =>
                    \A j \in 1..Len(stack'[t][i].rets) : ~Malformed(stack'[t][i].rets[j])
          /\ (last'[t].op = "lookup" /\ last'[t].rets # <<>>
              /\ Malformed(last'[t].rets[Len(last'[t].rets)])) =>
                /\ last'[t].res.kind = "TypeError"
                /\ Len(last'[t].invoked) = Len(last'[t].rets)
                /\ last'[t].codec = PyNone
      ]_vars

\* C8 witness: a lookup failed with a type error on a 3-tuple from the first
\* provider of a snapshot of two.
C8_Witness ==
    \E t \in Threads :
        /\ last[t].op = "lookup"
        /\ last[t].res.kind = "TypeError"
        /\ Len(last[t].rets) = 1
        /\ last[t].rets[1].type = "tuple" /\ last[t].rets[1].len = 3
        /\ Len(last[t].snap) = 2

\* C9: a lookup of a name that is not cached and that every provider of the
\* snapshot answers with None fails with a lookup error that names the
\* encoding the caller asked for.
C9_UnknownEncodingNamesRequest ==
    \A t \in Threads :
        (/\ last[t].op = "lookup"
         /\ ~last[t].hit
         /\ Len(last[t].rets) = Len(last[t].snap)
         /\ \A i \in 1..Len(last[t].rets) : last[t].rets[i] = PyNone) =>
            /\ last[t].res.kind = "LookupError"
            /\ last[t].res.name = last[t].arg

\* C10: encode_text and decode_text invoke the codec's function only after
\* the text-codec check passed: with a codec whose _is_text_encoding is
\* false the call fails with a lookup error and nothing is invoked, with a
\* codec that has no such attribute the function is invoked; a failed lookup
\* is passed on.
C10_TextCheckBeforeUse ==
    \A t \in Threads :
        /\ last[t].op \in {"encode_text", "decode_text"} =>
              /\ last[t].looked.kind # "Ok" =>
                    ~last[t].cap /\ last[t].res = last[t].looked
              /\ (last[t].looked.kind = "Ok" /\ last[t].looked.val.marker = "false") =>
                    ~last[t].cap /\ last[t].res.kind = "LookupError"
              /\ (last[t].looked.kind = "Ok" /\ last[t].looked.val.marker = "absent") =>
                    last[t].cap
              /\ last[t].cap => IsCodec(last[t].looked.val)
        /\ (stack[t] # <<>> /\ Top(t).pc = "codec") =>
              /\ Top(t).looked.kind = "Ok"
              /\ Top(t).looked.val.marker # "false"

\* C10 witness: a text call got a non-text codec and failed with a lookup
\* error.
C10_Witness ==
    \E t \in Threads :
        /\ last[t].op \in {"encode_text", "decode_text"}
        /\ last[t].looked.kind = "Ok"
        /\ last[t].looked.val.marker = "false"
        /\ last[t].res.kind = "LookupError"

\* C11: errors always binds the five built-in names: register_error only
\* adds or replaces the binding of its name and returns the handler bound
\* before (absent when there was none), so on a built-in name it returns a
\* handler, and lookup_error of a built-in name succeeds with the handler
\* bound.
C11_BuiltinHandlersStayBound ==
    /\ BuiltinErrors \subseteq DOMAIN errors
    /\ [][ /\ BuiltinErrors \subseteq DOMAIN errors'
           /\ \A t \in Threads :
                /\ Returns(t, "register_error", "start") =>
                      /\ DOMAIN errors' = DOMAIN errors \cup {Top(t).ename}
                      /\ errors'[Top(t).ename] = Fn(Top(t).func)
                      /\ \A n \in DOMAIN errors \ {Top(t).ename} : errors'[n] = errors[n]
                      /\ last'[t].res =
                            Ok(IF Top(t).ename \in DOMAIN errors
                               THEN errors[Top(t).ename] ELSE PyNone)
                      /\ Top(t).ename \in BuiltinErrors => last'[t].res.val # PyNone
                /\ Returns(t, "lookup_error", "start") =>
                      /\ errors' = errors
                      /\ Top(t).ename \in BuiltinErrors =>
                            last'[t].res = Ok(errors[Top(t).ename])
           /\ errors' # errors => \E t \in Threads : Returns(t, "register_error", "start")
         ]_vars

\* C11 witness: "strict" has been registered anew and a later
\* register_error("strict", h) returned that handler, not the built-in one.
C11_Witness ==
    \E t \in Threads :
        /\ last[t].op = "register_error"
        /\ last[t].ename = "strict"
        /\ last[t].res = Ok(Fn("user"))
        /\ BuiltinErrors \subseteq DOMAIN errors

\* C12: normalize_encoding_name is idempotent: normalizing its result once
\* more gives the same result, and the result holds no space and no ASCII
\* upper-case letter.
C12_NormalizeIdempotent ==
    pure.fn = "normalize_encoding_name" =>
        /\ pure.again = pure.out
        /\ \A i \in 1..Len(pure.out) :
             /\ pure.out[i] # 32
             /\ ~(pure.out[i] >= 65 /\ pure.out[i] <= 90)

C12_Witness ==
    /\ pure.fn = "normalize_encoding_name"
    /\ pure.encoding = << 65, 32, 90 >>
    /\ pure.out = << 97, 45, 122 >>
    /\ pure.again = pure.out

\* The fold of the whole string: every space becomes a hyphen, every ASCII
\* upper-case letter its lower-case letter, every other byte stays.
WholeFold(x) ==
    [j \in 1..Len(x) |->
        IF x[j] = 32 THEN 45
        ELSE IF x[j] >= 65 /\ x[j] <= 90 THEN x[j] + 32
        ELSE x[j]]

\* C19: the result of normalize_encoding_name(x) is the fold of the whole
\* of x, although the function copies the bytes before the first space or
\* upper-case letter unfolded.
C19_NormalizeIsWholeFold ==
    pure.fn = "normalize_encoding_name" =>
        /\ pure.out = WholeFold(pure.encoding)
        /\ Len(pure.out) = Len(pure.encoding)

C19_Witness ==
    /\ pure.fn = "normalize_encoding_name"
    /\ pure.encoding = << 195, 32, 90 >>
    /\ FindTrigger(pure.encoding) = 2
    /\ pure.out = << 195, 45, 122 >>

\* The description has a range: start and end are positions, start <= end.
HasRange(err) == err.start >= 0 /\ err.end >= 0 /\ err.start <= err.end

\* s is the character c, n times.
IsRepeated(s, c, n) == Len(s) = n /\ \A i \in 1..Len(s) : s[i] = c

\* C13: for an error description with the range [start, end), replace_errors
\* returns "?" end - start times on an encode error, U+FFFD end - start
\* times on a translate error, exactly one U+FFFD on a decode error whatever
\* the width of the span, each with the resume offset end; a value of any
\* other kind gets a type error.
C13_ReplaceByKind ==
    pure.fn = "replace_errors" =>
        LET err == pure.err
            res == pure.res
        IN  /\ (HasRange(err) /\ err.kind = "UnicodeEncodeError") =>
                  /\ res.kind = "Ok"
                  /\ IsRepeated(res.out, 63, err.end - err.start)
                  /\ res.resume = err.end
            /\ (HasRange(err) /\ err.kind = "UnicodeTranslateError") =>
                  /\ res.kind = "Ok"
                  /\ IsRepeated(res.out, 65533, err.end - err.start)
                  /\ res.resume = err.end
            /\ (HasRange(err) /\ err.kind = "UnicodeDecodeError") =>
                  /\ res.kind = "Ok"
                  /\ res.out = << 65533 >>
                  /\ res.resume = err.end
            /\ err.kind = "ValueError" => res.kind = "TypeError"

C13_Witness ==
    /\ pure.fn = "replace_errors"
    /\ pure.err.kind = "UnicodeDecodeError"
    /\ pure.err.start = 0
    /\ pure.err.end = 3
    /\ pure.res = HOk(<< 65533 >>, 3)

\* The references of the characters of s at the positions i, i + 1, ... that
\* lie before end, in order.
RECURSIVE RefsFrom(_, _, _)
RefsFrom(s, i, end) ==
    IF i >= end \/ i >= Len(s) THEN <<>>
    ELSE char_ref(s[i + 1]) \o RefsFrom(s, i + 1, end)

\* The references in out: each ends with its ';'.
NumRefs(out) == Cardinality({i \in 1..Len(out) : out[i] = 59})

\* The positions of [start, end) that hold a character of s.
InSpan(s, start, end) == {i \in 0..(Len(s) - 1) : start <= i /\ i < end}

\* C14 as stated: on an encode or translate error with the range
\* [start, end) xmlcharrefreplace_errors returns one reference per position
\* of the span, end - start references in all, and the resume offset end.
C14_OneReferencePerPosition ==
    (/\ pure.fn = "xmlcharrefreplace_errors"
     /\ is_encode_ish_err(pure.err)
     /\ HasRange(pure.err)) =>
        /\ pure.res.kind = "Ok"
        /\ NumRefs(pure.res.out) = pure.err.end - pure.err.start
        /\ pure.res.resume = pure.err.end

\* C14, amended: on an encode or translate error xmlcharrefreplace_errors
\* returns, in order, one reference "&#<decimal code point>;" for each
\* character of the text whose position lies in [start, end), which are
\* end - start references when the span lies within the text and fewer when
\* it reaches past the end of the text, with the resume offset end; on a
\* decode error, as on any other value, it returns a type error.
C14_OneReferencePerCharacterInSpan ==
    pure.fn = "xmlcharrefreplace_errors" =>
        LET err == pure.err
            res == pure.res
            valid == err.start >= 0 /\ err.end >= 0
        IN  /\ (is_encode_ish_err(err) /\ valid) =>
                  /\ res.kind = "Ok"
                  /\ res.out = RefsFrom(err.object, err.start, err.end)
                  /\ NumRefs(res.out) =
                        Cardinality(InSpan(err.object, err.start, err.end))
                  /\ (HasRange(err) /\ err.end <= Len(err.object)) =>
                        NumRefs(res.out) = err.end - err.start
                  /\ res.resume = err.end
            /\ ~is_encode_ish_err(err) => res.kind = "TypeError"

\* "&#233;&#8364;" for the text U+00E9 U+20AC and the span [0, 3)
C14_Witness ==
    /\ pure.fn = "xmlcharrefreplace_errors"
    /\ pure.err = [kind |-> "UnicodeEncodeError", start |-> 0, end |-> 3,
                   object |-> << 233, 8364 >>]
    /\ pure.res = HOk(<< 38, 35, 50, 51, 51, 59,
                         38, 35, 56, 51, 54, 52, 59 >>, 3)

\* The providers a lookup frame f has invoked are, in order, the first ones
\* of its snapshot.
InvokedPrefixOfSnapshot(f) ==
    /\ Len(f.invoked) <= Len(f.snap)
    /\ \A j \in 1..Len(f.invoked) : f.invoked[j].prov = f.snap[j]

\* C15: a lookup that misses the cache takes its snapshot of search_path at
\* the cache check and keeps it whatever is registered afterwards, by
\* another thread or by a provider it invoked; the providers it invokes are
\* a prefix of that snapshot, so none registered after the snapshot is.
C15_LookupWalksItsSnapshot ==
    [][ \A t \in Threads :
             /\ \A i \in 0..Len(stack'[t]) :
                   (LookupFrame(t, i).op = "lookup")' =>
                       InvokedPrefixOfSnapshot(LookupFrame(t, i))'
             /\ (/\ Running(t, "lookup", "check")
                 /\ stack'[t] # stack[t]
                 /\ Top(t).key \notin DOMAIN search_cache) =>
                   IF Len(stack'[t]) < Len(stack[t])
                   THEN last'[t].snap = search_path
                   ELSE stack'[t][Len(stack[t])].snap = search_path
             /\ \A i \in 1..Len(stack[t]) :
                   (/\ stack[t][i].op = "lookup"
                    /\ stack[t][i].pc \in {"in_provider", "write", "insert"}) =>
                       IF i <= Len(stack'[t])
                       THEN stack'[t][i].snap = stack[t][i].snap
                       ELSE /\ last'[t].snap = stack[t][i].snap
                            /\ InvokedPrefixOfSnapshot(last'[t])
      ]_vars

\* C15 witness: a lookup failed after it had invoked every provider of its
\* snapshot, while search_path held one more provider, registered since,
\* that recognises the name.
C15_Witness ==
    \E t \in Threads :
        /\ last[t].op = "lookup"
        /\ last[t].res.kind = "LookupError"
        /\ last[t].snap # <<>>
        /\ Len(last[t].invoked) = Len(last[t].snap)
        /\ Len(search_path) > Len(last[t].snap)
        /\ Recognised(search_path, last[t].key)

\* C16: every entry of search_cache holds, under its key k, a codec that a
\* provider of search_path returned earlier when it was invoked with k: no
\* codec is stored under another key than the one its provider was asked
\* for, and none that did not come from a registered provider.
C16_CacheProvenance ==
    \A k \in DOMAIN search_cache :
        LET h == search_cache[k] IN
        /\ IsCodec(h)
        /\ h.arg = k
        /\ h.id >= 1 /\ h.id < nextId
        /\ \E i \in 1..Len(search_path) : search_path[i] = h.prov
        /\ h.prov \in Providers
        /\ ~ProviderRaises(h.prov, k)
        /\ h = ProviderValue(h.prov, k, h.id)

\* C16 witness: the cache holds a codec under each of the two keys, each
\* from the provider asked for that key.
C16_Witness ==
    /\ KeyU8 \in DOMAIN search_cache
    /\ KeyL1 \in DOMAIN search_cache
    /\ search_cache[KeyU8].arg = KeyU8
    /\ search_cache[KeyL1].arg = KeyL1
    /\ search_cache[KeyU8].id # search_cache[KeyL1].id

\* s holds no space and no ASCII upper-case letter.
Folded(s) == \A i \in 1..Len(s) : s[i] # 32 /\ ~(s[i] >= 65 /\ s[i] <= 90)

\* C17: every key of search_cache is a normalized name; lookup reads and
\* inserts, and forget removes, only under the normalized form of the name
\* it was given, so calls with names of the same normalized form address
\* the same entry; no other step changes the keys.
C17_CacheKeysNormalized ==
    [][ /\ \A k \in DOMAIN search_cache' :
              Folded(k) /\ normalize_encoding_name(k) = k
        /\ \A t \in Threads :
              LET key == normalize_encoding_name(Top(t).arg) IN
              /\ Returns(t, "lookup", "insert") =>
                    /\ DOMAIN search_cache' = DOMAIN search_cache \cup {key}
                    /\ last'[t].res = Ok(search_cache'[key])
              /\ (Returns(t, "lookup", "check") /\ key \in DOMAIN search_cache) =>
                    /\ last'[t].res = Ok(search_cache[key])
                    /\ search_cache' = search_cache
              /\ Returns(t, "forget", "start") =>
                    /\ DOMAIN search_cache' = DOMAIN search_cache \ {key}
                    /\ last'[t].res =
                          Ok(IF key \in DOMAIN search_cache
                             THEN search_cache[key] ELSE PyNone)
        /\ DOMAIN search_cache' # DOMAIN search_cache =>
              \E t \in Threads : \/ Returns(t, "lookup", "insert")
                                 \/ Returns(t, "forget", "start")
      ]_vars

\* C17 witness: forget("U8") removed and returned the codec that
\* lookup("u8") of the other thread had cached and returned.
C17_Witness ==
    \E t, u \in Threads :
        /\ last[t].op = "forget"
        /\ last[t].arg = << 85, 56 >>
        /\ last[u].op = "lookup"
        /\ last[u].arg = << 117, 56 >>
        /\ ~last[u].hit
        /\ IsCodec(last[t].res.val)
        /\ last[u].res = last[t].res
        /\ KeyU8 \notin DOMAIN search_cache

\* How a lookup frame f that has returned went: no provider of its snapshot
\* matched, a provider raised, or a provider returned a malformed value.
NoProviderMatched(f) ==
    /\ ~f.hit
    /\ Len(f.invoked) = Len(f.snap)
    /\ Len(f.rets) = Len(f.snap)
    /\ \A i \in 1..Len(f.rets) : f.rets[i] = PyNone
ProviderRaised(f) == ~f.hit /\ Len(f.rets) < Len(f.invoked)
ProviderMalformed(f) ==
    ~f.hit /\ f.rets # <<>> /\ Malformed(f.rets[Len(f.rets)])

\* The first provider of path that does not return None for key returns a
\* codec for it.
FirstAnswerIsCodec(path, key) ==
    \E i \in 1..Len(path) :
        /\ ~ProviderRaises(path[i], key)
        /\ IsCodec(ProviderValue(path[i], key, 0))
        /\ \A j \in 1..(i - 1) :
              /\ ~ProviderRaises(path[j], key)
              /\ ProviderValue(path[j], key, 0) = PyNone

C20_ForgetLeavesLookupsInFlight ==
    [][ \A t \in Threads :
          /\ Returns(t, "forget", "start") =>
                \A u \in Threads \ {t} : stack'[u] = stack[u]
          /\ (Running(t, "lookup", "write") /\ stack'[t] # stack[t]) =>
                /\ Len(stack'[t]) = Len(stack[t])
                /\ Top(t)'.pc = "insert"
                /\ Top(t)'.codec = Top(t).codec
          /\ (Returns(t, "lookup", "insert")
                /\ Top(t).key \notin DOMAIN search_cache) =>
                /\ Top(t).key \in DOMAIN search_cache'
                /\ search_cache'[Top(t).key] = Top(t).codec
                /\ last'[t].res = Ok(Top(t).codec)
                /\ last'[t].cepoch = Top(t).cepoch
                /\ last'[t].cepoch <= forgets[Top(t).key]
      ]_vars

\* C20 witness: a lookup got its codec from a provider, a forget of the name
\* ran and returned, and then the lookup inserted the codec and returned it:
\* the cache holds a codec obtained before the forget.
C20_Witness ==
    \E t, u \in Threads :
        /\ last[t].op = "lookup"
        /\ ~last[t].hit
        /\ IsCodec(last[t].codec)
        /\ last[t].res = Ok(last[t].codec)
        /\ last[t].cepoch < last[t].epoch1
        /\ last[u].op = "forget"
        /\ last[u].key = last[t].key
        /\ last[u].res.kind = "Ok"
        /\ last[t].key \in DOMAIN search_cache
        /\ search_cache[last[t].key] = last[t].codec

====
